---- MODULE Spec2Model ----
(***************************************************************************)
(* GitHubStreaker: the heatmap painter (tools/heatmap_painter.py, emitted  *)
(* by github_streaker_tui/generator.py), the generator's save_all, and the *)
(* generated workflow's "Commit and push" step, as one state machine.      *)
(*                                                                         *)
(* Days are integers (day 0 is a Friday).  Only the artifact file of the   *)
(* current UTC date is kept in full: the painter reads and writes no other *)
(* date's file, and what a workflow run leaves uncommitted of older files  *)
(* is carried in two flags.                                                *)
(*                                                                         *)
(* main.py's loading of pattern.json and the grid editor of tui.py, which  *)
(* come before save_all in an authoring session, are the variable session. *)
(***************************************************************************)
EXTENDS Integers, Sequences, FiniteSets, TLC

VARIABLES
  store,          \* pattern.json: [exists, mode, start, pattern, daily]
  today,          \* the current UTC date
  file,           \* <data_dir>/<today>.txt: [exists, lines]
  index,          \* lines of today's file in the git index, None if not in it
  head,           \* lines of today's file in HEAD, None if not in it
  carryTracked,   \* a workflow run's tree: changes of older files staged or
                  \*   tracked and modified
  carryUntracked, \* a workflow run's tree: untracked older files
  commits,        \* the ledger: author -> commits dated today
  stepCommits,    \* commits dated today that the workflow's commit step made
  identity,       \* GITHUB_ACTOR or COMMITTER_NAME as the painter sees it
  pc,             \* the workflow run: "idle" (none), "checkedout", "painted"
  changedToday,   \* pattern.json was (re)written during the current date
  last,           \* the painter run that has just ended: what it saw and did
  runs,           \* painter processes under way, each at its place in main
  older,          \* <data_dir>/<today - 1>.txt, kept while such processes run
  session         \* main.py under way: what it loaded and the editor's state

vars == <<store, today, file, index, head, carryTracked, carryUntracked,
          commits, stepCommits, identity, pc, changedToday, last, runs, older, session>>

-----------------------------------------------------------------------------
(* Bounds of the model. *)

\* The last date the clock reaches.
MaxDay == 7
\* The largest cell value and daily quota the editor input takes.
MaxNeed == 2
\* The most commits dated one date.
MaxCommits == 2
\* The last date on which the pattern is (re)authored.
MaxSaveDay == 0
\* The most weeks (columns) of a pattern.
MaxWeeks == 1
\* The last date the clock reaches while painter processes are followed
\* statement by statement.
MaxStepDay == 1
\* The widest pattern the editor is opened on.
MaxCols == 2
\* The most keys of one editor session other than cursor moves; the session
\* is followed up to the last of them, and to its end by "q" or Ctrl+S.
MaxKeys == 1

Days == 0..MaxDay
Authors == {"bot", "user"}
\* "" : neither GITHUB_ACTOR nor COMMITTER_NAME is set.
Identities == {"", "bot", "user"}
None == -1

Max(a, b) == IF a >= b THEN a ELSE b

\* datetime.date.weekday(): Monday is 0 and Sunday is 6; day 0 is a Friday.
Weekday(d) == (d + 4) % 7

-----------------------------------------------------------------------------
(* generator.py: save_all and its helpers. *)

\* The editor's grids: 7 rows of n cells in 0..MaxNeed.
Grid(c, n) == [r \in 1..7 |-> [k \in 1..n |-> (r + k + c) % (MaxNeed + 1)]]
PatternInputs == {Grid(c, n) : c \in {0, 1}, n \in 1..MaxWeeks}

\* What main.py hands to save_all: the edited pattern and the configuration.
SaveInputs ==
  {[mode |-> "pattern", pattern |-> p, daily |-> 0, weeks |-> Len(p[1]), nextSunday |-> b] :
     p \in PatternInputs, b \in BOOLEAN}
  \cup
  {[mode |-> "daily", pattern |-> <<>>, daily |-> d, weeks |-> w, nextSunday |-> FALSE] :
     d \in 0..MaxNeed, w \in 1..MaxWeeks}

NoStore == [exists |-> FALSE, mode |-> "pattern", start |-> 0,
            pattern |-> <<>>, daily |-> 0]

\* A start date that is never today: on a Sunday, the Sunday a week later.
CalculateStartDateAfterToday(start_from_next_sunday, mode, day) ==
  IF mode # "pattern" THEN day
  ELSE IF ~start_from_next_sunday THEN day
  ELSE day + ((5 - Weekday(day)) % 7) + 1

CalculateStartDate(start_from_next_sunday, mode, day) ==
  IF mode # "pattern" THEN day
  ELSE IF ~start_from_next_sunday THEN day
  ELSE day + ((6 - Weekday(day)) % 7)

BuildDailyPattern(daily, weeks) ==
  [r \in 1..7 |-> [k \in 1..Max(1, weeks) |-> Max(0, daily)]]

\* A save_all that checks the number of rows and not their lengths.
SaveAllRaisesRowCountOnly(mode, pattern, daily) ==
  IF mode = "pattern" THEN Len(pattern) # 7 ELSE daily <= 0

\* save_all raises before any file is written.
SaveAllRaises(mode, pattern, daily) ==
  IF mode = "pattern"
  THEN Len(pattern) # 7 \/ \E r \in 1..Len(pattern) : Len(pattern[r]) # Len(pattern[1])
  ELSE daily <= 0

\* The pattern.json save_all writes.
WritePatternJson(mode, pattern, daily, weeks, start_from_next_sunday, day) ==
  [exists  |-> TRUE,
   mode    |-> mode,
   start   |-> CalculateStartDate(start_from_next_sunday, mode, day),
   pattern |-> IF mode = "pattern" THEN pattern ELSE BuildDailyPattern(daily, weeks),
   daily   |-> daily]

-----------------------------------------------------------------------------
(* _PAINTER_SCRIPT. *)

\* A cell of pattern.json that int() rejects: a non-numeric string, null, a
\* list.  Every other cell is the integer it holds.
NotNumeric == -2

\* main, lines 211-214: int(cell), 0 on ValueError or TypeError.
IntCell(cell) == IF cell = NotNumeric THEN 0 ELSE cell

\* A date mapper whose row 0 is always Sunday, whatever start_date's weekday.
ResolveNeedSundayRows(st, day) ==
  LET delta == day - st.start
      stopAt(code, what) == [stop |-> TRUE, exit |-> code, outcome |-> what, need |-> 0]
  IN
  IF delta < 0 THEN stopAt(0, "NotStarted")
  ELSE IF st.mode = "daily"
  THEN IF Max(0, st.daily) <= 0
       THEN stopAt(1, "DailyUnset")
       ELSE [stop |-> FALSE, exit |-> 0, outcome |-> "Active", need |-> Max(0, st.daily)]
  ELSE IF Len(st.pattern) < 7 THEN stopAt(1, "BadShape")
  ELSE IF \E r \in 1..7 : Len(st.pattern[r]) # Len(st.pattern[1]) THEN stopAt(1, "Ragged")
  ELSE IF Len(st.pattern[1]) = 0 THEN stopAt(0, "ZeroWidth")
  ELSE IF delta \div 7 >= Len(st.pattern[1]) THEN stopAt(0, "Completed")
  ELSE [stop |-> FALSE, exit |-> 0, outcome |-> "Active",
        need |-> IntCell(st.pattern[((Weekday(day) + 1) % 7) + 1][(delta \div 7) + 1])]

\* A date mapper that takes the pattern for completed one week early, in its
\* last column.
ResolveNeedEarlyCompleted(st, day) ==
  LET delta == day - st.start
      stopAt(code, what) == [stop |-> TRUE, exit |-> code, outcome |-> what, need |-> 0]
  IN
  IF delta < 0 THEN stopAt(0, "NotStarted")
  ELSE IF st.mode = "daily"
  THEN IF Max(0, st.daily) <= 0
       THEN stopAt(1, "DailyUnset")
       ELSE [stop |-> FALSE, exit |-> 0, outcome |-> "Active", need |-> Max(0, st.daily)]
  ELSE IF Len(st.pattern) < 7 THEN stopAt(1, "BadShape")
  ELSE IF \E r \in 1..7 : Len(st.pattern[r]) # Len(st.pattern[1]) THEN stopAt(1, "Ragged")
  ELSE IF Len(st.pattern[1]) = 0 THEN stopAt(0, "ZeroWidth")
  ELSE IF (delta \div 7) + 1 >= Len(st.pattern[1]) THEN stopAt(0, "Completed")
  ELSE [stop |-> FALSE, exit |-> 0, outcome |-> "Active",
        need |-> IntCell(st.pattern[(delta % 7) + 1][(delta \div 7) + 1])]

\* A date mapper that takes a grid without columns for a day of zero quota:
\* the run goes on to the ledger.
ResolveNeedZeroWidthAsZeroQuota(st, day) ==
  LET delta == day - st.start
      stopAt(code, what) == [stop |-> TRUE, exit |-> code, outcome |-> what, need |-> 0]
  IN
  IF delta < 0 THEN stopAt(0, "NotStarted")
  ELSE IF st.mode = "daily"
  THEN IF Max(0, st.daily) <= 0
       THEN stopAt(1, "DailyUnset")
       ELSE [stop |-> FALSE, exit |-> 0, outcome |-> "Active", need |-> Max(0, st.daily)]
  ELSE IF Len(st.pattern) < 7 THEN stopAt(1, "BadShape")
  ELSE IF \E r \in 1..7 : Len(st.pattern[r]) # Len(st.pattern[1]) THEN stopAt(1, "Ragged")
  ELSE IF Len(st.pattern[1]) = 0
  THEN [stop |-> FALSE, exit |-> 0, outcome |-> "Active", need |-> 0]
  ELSE IF delta \div 7 >= Len(st.pattern[1]) THEN stopAt(0, "Completed")
  ELSE [stop |-> FALSE, exit |-> 0, outcome |-> "Active",
        need |-> IntCell(st.pattern[(delta % 7) + 1][(delta \div 7) + 1])]

\* main, lines 181-214: the day's target.  stop: main returns here with exit.
ResolveNeed(st, day) ==
  LET delta == day - st.start
      stopAt(code, what) == [stop |-> TRUE, exit |-> code, outcome |-> what, need |-> 0]
  IN
  IF delta < 0 THEN stopAt(0, "NotStarted")
  ELSE IF st.mode = "daily"
  THEN IF Max(0, st.daily) <= 0
       THEN stopAt(1, "DailyUnset")
       ELSE [stop |-> FALSE, exit |-> 0, outcome |-> "Active", need |-> Max(0, st.daily)]
  ELSE IF Len(st.pattern) < 7 THEN stopAt(1, "BadShape")
  ELSE IF \E r \in 1..7 : Len(st.pattern[r]) # Len(st.pattern[1]) THEN stopAt(1, "Ragged")
  ELSE IF Len(st.pattern[1]) = 0 THEN stopAt(0, "ZeroWidth")
  ELSE IF delta \div 7 >= Len(st.pattern[1]) THEN stopAt(0, "Completed")
  ELSE [stop |-> FALSE, exit |-> 0, outcome |-> "Active",
        need |-> IntCell(st.pattern[(delta % 7) + 1][(delta \div 7) + 1])]

\* The author line of each author's commits, name and e-mail address, and
\* the names the environment can hold, character by character.  "x" is a
\* name that is no author's and lies within the address of both.
AuthorLine == [bot  |-> <<"b", "o", "t", "@", "x">>,
               user |-> <<"u", "s", "e", "r", "@", "x">>]
Chars == [bot |-> <<"b", "o", "t">>, user |-> <<"u", "s", "e", "r">>, x |-> <<"x">>]

\* s holds t as a run of consecutive characters.
Contains(s, t) == \E i \in 0..(Len(s) - Len(t)) : SubSeq(s, i + 1, i + Len(t)) = t

\* git log --author=<who>, line 270: the commits whose author line holds a
\* match of the pattern; a name without special characters matches where
\* it occurs.
AuthorCount(who, ledger) ==
  (IF Contains(AuthorLine["bot"], Chars[who]) THEN ledger["bot"] ELSE 0)
  + (IF Contains(AuthorLine["user"], Chars[who]) THEN ledger["user"] ELSE 0)

\* A ledger inspector that reports a failed query as no commits.
CountCommitsTodayZeroOnFailure(logRes, who, ledger) ==
  IF logRes # "ok" THEN 0
  ELSE IF who # "" THEN AuthorCount(who, ledger)
  ELSE ledger["bot"] + ledger["user"]

\* A ledger inspector that never passes the identity on to git log.
CountCommitsTodayAllAuthors(logRes, who, ledger) ==
  IF logRes = "missing" THEN None
  ELSE IF logRes = "nonzero" THEN None
  ELSE ledger["bot"] + ledger["user"]

\* _count_commits_today: None when git is missing or git log exits non-zero.
CountCommitsToday(logRes, who, ledger) ==
  IF logRes = "missing" THEN None
  ELSE IF logRes = "nonzero" THEN None
  ELSE IF who # "" THEN AuthorCount(who, ledger)
  ELSE ledger["bot"] + ledger["user"]

\* The ledger tests with the zero-quota test ahead of all others.
LedgerCheckZeroQuotaFirst(need, commits_today) ==
  IF need <= 0 THEN "ZeroQuota"
  ELSE IF commits_today = None THEN "LedgerUnavailable"
  ELSE IF commits_today > need THEN "CommitOvershoot"
  ELSE IF commits_today = need THEN "Satisfied"
  ELSE "Continue"

\* The ledger tests with the zero-quota test ahead of the overshoot test.
LedgerCheckZeroQuotaBeforeOvershoot(need, commits_today) ==
  IF commits_today = None THEN "LedgerUnavailable"
  ELSE IF need <= 0 THEN "ZeroQuota"
  ELSE IF commits_today > need THEN "CommitOvershoot"
  ELSE IF commits_today = need THEN "Satisfied"
  ELSE "Continue"

\* The ledger tests without the overshoot test: any count at or above the
\* target passes for satisfied.
LedgerCheckNoOvershoot(need, commits_today) ==
  IF commits_today = None THEN "LedgerUnavailable"
  ELSE IF need <= 0 THEN "ZeroQuota"
  ELSE IF commits_today >= need THEN "Satisfied"
  ELSE "Continue"

\* The ledger tests without the satisfied test: a count equal to the target
\* goes on to the file.
LedgerCheckNoSatisfied(need, commits_today) ==
  IF commits_today = None THEN "LedgerUnavailable"
  ELSE IF commits_today > need THEN "CommitOvershoot"
  ELSE IF need <= 0 THEN "ZeroQuota"
  ELSE "Continue"

\* main, lines 218-230: today's commits against the target.
LedgerCheck(need, commits_today) ==
  IF commits_today = None THEN "LedgerUnavailable"
  ELSE IF commits_today > need THEN "CommitOvershoot"
  ELSE IF need <= 0 THEN "ZeroQuota"
  ELSE IF commits_today = need THEN "Satisfied"
  ELSE "Continue"

\* A painter that never counts the lines already in the day's file.
ExistingLinesUncounted(f) == 0

\* main, lines 236-239: the lines of the day's file, 0 when it does not exist.
ExistingLines(f) == IF f.exists THEN Len(f.lines) ELSE 0

\* The record tests without the overshoot test: a file at or above the
\* target passes for staged.
RecordCheckNoOvershoot(need, existing) ==
  IF existing >= need THEN "AlreadyStaged"
  ELSE "Append"

\* main, lines 241-246: the records on disk against the target.
RecordCheck(need, existing) ==
  IF existing > need THEN "RecordOvershoot"
  ELSE IF existing = need THEN "AlreadyStaged"
  ELSE "Append"

\* A painter that writes the whole target whatever the file holds.
ToWriteIgnoringExisting(need, existing) == need

\* A painter that writes one record per run.
ToWriteOne(need, existing) == 1

\* main, line 248.
ToWrite(need, existing) == need - existing

\* An entry point that reports a commit overshoot as success.
ExitCodeCommitOvershootZero(outcome) ==
  IF outcome \in {"NotStarted", "ZeroWidth", "Completed", "ZeroQuota", "Satisfied",
                  "AlreadyStaged", "Write", "CommitOvershoot"}
  THEN 0 ELSE 1

\* An entry point that swallows a failure of git add.
ExitCodeSwallowsStageFailure(outcome) ==
  IF outcome \in {"NotStarted", "ZeroWidth", "Completed", "ZeroQuota", "Satisfied",
                  "AlreadyStaged", "Write", "StageFailed"}
  THEN 0 ELSE 1

\* The exit code main returns with each outcome.
ExitCode(outcome) ==
  IF outcome \in {"NotStarted", "ZeroWidth", "Completed", "ZeroQuota", "Satisfied",
                  "AlreadyStaged", "Write"}
  THEN 0 ELSE 1

\* main, lines 216-262: compare and write.  wrote: lines appended;
\* addCalled: git add was run; staged: it succeeded.  A failing git add
\* (CalledProcessError, or FileNotFoundError, which main does not catch)
\* ends the run with exit code 1 after the lines are written.
Reconcile(need, commits_today, existing, addRes) ==
  LET ends(what) == [exit |-> ExitCode(what), outcome |-> what, wrote |-> 0,
                     addCalled |-> FALSE, staged |-> FALSE]
      first == LedgerCheck(need, commits_today)
      second == RecordCheck(need, existing)
  IN
  IF first # "Continue" THEN ends(first)
  ELSE IF second # "Append" THEN ends(second)
  ELSE LET what == IF addRes = "ok" THEN "Write" ELSE "StageFailed" IN
       [exit |-> ExitCode(what), outcome |-> what, wrote |-> ToWrite(need, existing),
        addCalled |-> TRUE, staged |-> addRes = "ok"]

\* A painter that numbers the lines of every run from 1.
NewLinesFromOne(existing, to_write, need) ==
  [i \in 1..to_write |-> [idx |-> i, of |-> need]]

\* The lines main appends: "<stamp> #idx/need <payload>", idx from existing + 1.
NewLines(existing, to_write, need) ==
  [i \in 1..to_write |-> [idx |-> existing + i, of |-> need]]

\* A painter that opens the day's file for writing, not for appending.
AppendToTruncating(f, new) == [exists |-> TRUE, lines |-> new]

\* main, lines 249-253: out_file.open("a") and the writes: the file is
\* created if it is not there and the lines go after the ones it holds.
AppendTo(f, new) == [exists |-> TRUE, lines |-> f.lines \o new]

\* One run of main.  ledger: the commit count git log gave, None if it gave
\* none or was never asked; log: how git log answers during this run, asked
\* or not; add: how git add answered, "unasked" if it was not run.
PainterMain(st, day, logRes, who, ledger, f, addRes) ==
  LET quiet(code, what) == [exit |-> code, outcome |-> what, need |-> 0,
                            ledger |-> None, asked |-> FALSE, existing |-> 0,
                            wrote |-> 0, addCalled |-> FALSE, staged |-> FALSE,
                            log |-> logRes, add |-> "unasked"]
  IN
  IF ~st.exists THEN quiet(1, "NoStore")
  ELSE LET t == ResolveNeed(st, day) IN
       IF t.stop THEN quiet(t.exit, t.outcome)
       ELSE LET c == CountCommitsToday(logRes, who, ledger)
                r == Reconcile(t.need, c, ExistingLines(f), addRes)
            IN [exit |-> r.exit, outcome |-> r.outcome, need |-> t.need,
                ledger |-> c, asked |-> TRUE, existing |-> ExistingLines(f),
                wrote |-> r.wrote, addCalled |-> r.addCalled, staged |-> r.staged,
                log |-> logRes, add |-> IF r.addCalled THEN addRes ELSE "unasked"]

-----------------------------------------------------------------------------
(* main.py: _load_existing_pattern and its helpers. *)

\* A value of a stored row as json.loads gives it: k is its kind and v its
\* number.  "int" is a JSON integer, "real" a finite JSON number with a
\* fraction (v counts tenths), "bool" true or false (v is 1 or 0), "digits"
\* a string that int() reads as the integer v, "text" any other string,
\* "null" null, "array" a list or an object, "nan" NaN and "inf" Infinity,
\* -Infinity or a number beyond the floats (1e400).
AnInt(n) == [k |-> "int", v |-> n]
AReal(tenths) == [k |-> "real", v |-> tenths]
ABool(b) == [k |-> "bool", v |-> b]
ADigits(n) == [k |-> "digits", v |-> n]
AText == [k |-> "text", v |-> 0]
ANull == [k |-> "null", v |-> 0]
AnArray == [k |-> "array", v |-> 0]
ANaN == [k |-> "nan", v |-> 0]
AnInf == [k |-> "inf", v |-> 0]

\* int(x) of a finite float: the fraction is cut off, towards zero.
Truncate(tenths) == IF tenths >= 0 THEN tenths \div 10 ELSE 0 - ((0 - tenths) \div 10)

\* Lines 252-255: int(value), with TypeError and ValueError turned into 0.
\* int(Infinity) raises OverflowError, which is neither.
IntRaises(value) == value.k = "inf"
IntValue(value) ==
  CASE value.k \in {"int", "bool", "digits"} -> value.v
    [] value.k = "real" -> Truncate(value.v)
    [] OTHER -> 0

\* Lines 263-264.
BlankPattern(weeks) == [r \in 1..7 |-> [c \in 1..weeks |-> 0]]

\* Lines 267-279.
ResizePattern(pattern, weeks) ==
  LET adjusted == [r \in 1..Len(pattern) |->
                     [c \in 1..weeks |->
                        IF c <= Len(pattern[r]) THEN pattern[r][c] ELSE 0]]
  IN IF Len(adjusted) < 7
     THEN adjusted \o SubSeq(BlankPattern(weeks), Len(adjusted) + 1, 7)
     ELSE SubSeq(adjusted, 1, 7)

\* pattern.json as main.py finds it: [k, rows].  k is "missing" (no such
\* file), "unreadable" (read_text raises OSError), "notutf8" (bytes that are
\* not UTF-8), "notjson" (json.loads raises JSONDecodeError), "notobject"
\* (JSON, but a list, a number, a string or null), "nopattern" (an object
\* without "pattern"), "notlist" ("pattern" is not a list) or "rows"
\* ("pattern" is the list rows).  A row is [list, cells]: list is FALSE for
\* a row that is not a list.
Content(kind) == [k |-> kind, rows |-> <<>>]
Row(cells) == [list |-> TRUE, cells |-> cells]
NotARow == [list |-> FALSE, cells |-> <<>>]

\* Lines 246-256 go through the rows in order: the first row that is not a
\* list ends the loading with a blank pattern, the first value int() cannot
\* take ends it with the exception.  0 if there is no such row.
FirstBadRow(rows) ==
  LET bad == {r \in 1..Len(rows) :
                \/ ~rows[r].list
                \/ \E c \in 1..Len(rows[r].cells) : IntRaises(rows[r].cells[c])}
  IN IF bad = {} THEN 0 ELSE CHOOSE r \in bad : \A q \in bad : r <= q

Loaded(pattern) == [raised |-> FALSE, pattern |-> pattern]
Raised == [raised |-> TRUE, pattern |-> <<>>]

\* Lines 227-260.  weeks is an integer here, as main.py passes it.
LoadExistingPattern(raw, weeks) ==
  LET w == Max(1, IF weeks = 0 THEN 1 ELSE weeks)
      bad == FirstBadRow(raw.rows)
      normalized == [r \in 1..Len(raw.rows) |->
                       [c \in 1..Len(raw.rows[r].cells) |-> IntValue(raw.rows[r].cells[c])]]
  IN CASE raw.k \in {"missing", "unreadable", "notjson"} -> Loaded(BlankPattern(w))
       [] raw.k = "notutf8" -> Raised
       [] raw.k = "notobject" -> Raised
       [] raw.k \in {"nopattern", "notlist"} -> Loaded(BlankPattern(w))
       [] OTHER ->
            IF Len(raw.rows) # 7 THEN Loaded(BlankPattern(w))
            ELSE IF bad # 0 /\ ~raw.rows[bad].list THEN Loaded(BlankPattern(w))
            ELSE IF bad # 0 THEN Raised
            ELSE Loaded(ResizePattern(normalized, w))

-----------------------------------------------------------------------------
(* tui.py: the grid editor's helpers.  Rows and columns count from 0, as in *)
(* the code; pattern[r + 1][c + 1] is the code's pattern[r][c].             *)

Min(a, b) == IF a <= b THEN a ELSE b

\* Three of TEXT_GLYPHS' 37 glyphs, all of them 7 rows of 5: 1 is "#".
TextGlyphs ==
  ("A" :> << <<0, 1, 1, 1, 0>>,
             <<1, 0, 0, 0, 1>>,
             <<1, 0, 0, 0, 1>>,
             <<1, 1, 1, 1, 1>>,
             <<1, 0, 0, 0, 1>>,
             <<1, 0, 0, 0, 1>>,
             <<1, 0, 0, 0, 1>> >>)
  @@
  ("I" :> << <<0, 1, 1, 1, 0>>,
             <<0, 0, 1, 0, 0>>,
             <<0, 0, 1, 0, 0>>,
             <<0, 0, 1, 0, 0>>,
             <<0, 0, 1, 0, 0>>,
             <<0, 0, 1, 0, 0>>,
             <<0, 1, 1, 1, 0>> >>)
  @@
  (" " :> [r \in 1..7 |-> [x \in 1..5 |-> 0]])

\* str.upper() on the characters the model types.
Upper(char) == CASE char = "a" -> "A" [] char = "i" -> "I" [] OTHER -> char

\* _cycle.
Cycle(current) ==
  LET seq == <<0, 3, 6, 9>> IN
  IF \A i \in 1..4 : seq[i] # current THEN seq[1]
  ELSE seq[((CHOOSE i \in 1..4 : seq[i] = current) % 4) + 1]

\* _stamp_text, lines 571-577: the cells one glyph sets to 9, as <<row, column>>.
GlyphWritesUnclipped(glyph, col_ptr, cols, total_rows) ==
  {<<q[1], col_ptr + q[2]>> :
     q \in {rx \in (0..(Min(Len(glyph), total_rows) - 1)) \X (0..(Len(glyph[1]) - 1)) :
              glyph[rx[1] + 1][rx[2] + 1] # 0}}
GlyphWrites(glyph, col_ptr, cols, total_rows) ==
  {<<q[1], col_ptr + q[2]>> :
     q \in {rx \in (0..(Min(Len(glyph), total_rows) - 1)) \X (0..(Len(glyph[1]) - 1)) :
              /\ col_ptr + rx[2] < cols
              /\ glyph[rx[1] + 1][rx[2] + 1] # 0}}

\* _stamp_text, lines 565-581, from the i-th character on.
RECURSIVE StampFrom(_, _, _, _, _, _)
StampFrom(cols, total_rows, start_col, col_ptr, text, i) ==
  IF i > Len(text) THEN [writes |-> {}, applied_cols |-> 0]
  ELSE IF Upper(text[i]) \notin DOMAIN TextGlyphs
  THEN StampFrom(cols, total_rows, start_col, col_ptr + 1, text, i + 1)
  ELSE LET glyph == TextGlyphs[Upper(text[i])]
           next == col_ptr + Len(glyph[1]) + 1
           rest == IF next >= cols THEN [writes |-> {}, applied_cols |-> 0]
                   ELSE StampFrom(cols, total_rows, start_col, next, text, i + 1)
       IN [writes |-> GlyphWrites(glyph, col_ptr, cols, total_rows) \cup rest.writes,
           applied_cols |-> Max(next - start_col, rest.applied_cols)]

\* _stamp_text: the cells it sets to 9 and the count it returns.
StampText(pattern, start_col, text) ==
  StampFrom(Len(pattern[1]), Len(pattern), start_col,
            Max(0, Min(start_col, Len(pattern[1]) - 1)), text, 1)

\* pattern[r][c] = value for every <<r, c>> of cells.
SetCells(pattern, cells, value) ==
  [r \in 1..Len(pattern) |->
     [c \in 1..Len(pattern[r]) |->
        IF <<r - 1, c - 1>> \in cells THEN value ELSE pattern[r][c]]]

\* Writing a cell the list does not have raises IndexError.
InPattern(pattern, cell) ==
  /\ cell[1] \in 0..(Len(pattern) - 1)
  /\ cell[2] \in 0..(Len(pattern[cell[1] + 1]) - 1)

\* main.py has not been started.
NoSession == [at |-> "closed", weeks |-> 0, raw |-> Content("missing"),
              initial |-> <<>>, pattern |-> <<>>, cursor_row |-> 0, cursor_col |-> 0,
              save |-> FALSE, message |-> "", writes |-> {}, keys |-> 0]

-----------------------------------------------------------------------------
NoFile == [exists |-> FALSE, lines |-> <<>>]
NoRun == [exit |-> 0, outcome |-> "None", need |-> 0, ledger |-> None,
          asked |-> FALSE, existing |-> 0, wrote |-> 0, addCalled |-> FALSE,
          staged |-> FALSE, log |-> "unasked", add |-> "unasked"]

\* Painter processes that can be under way at once.  The workflow's
\* concurrency group lets one workflow run paint at a time; a run by hand on
\* the same working tree is held back by nothing.
Procs == {1, 2}
\* A process that is not in main.  exit is the exit code of its last run.
Waiting == [at |-> "idle", day |-> 0, need |-> 0, since |-> 0, ledger |-> None,
            existing |-> 0, wrote |-> 0, exit |-> None]
NoRuns == [p \in Procs |-> Waiting]

Init ==
  /\ store = NoStore
  /\ today = 0
  /\ file = NoFile
  /\ index = None
  /\ head = None
  /\ carryTracked = FALSE
  /\ carryUntracked = FALSE
  /\ commits = [a \in Authors |-> 0]
  /\ stepCommits = 0
  /\ identity \in Identities
  /\ pc = "idle"
  /\ changedToday = FALSE
  /\ last = NoRun
  /\ runs = NoRuns
  /\ older = NoFile
  /\ session = NoSession

\* main.py runs save_all(pattern, cfg) on the target repository.  A workflow
\* run works on the pattern.json it checked out, so a save during a run is
\* one after it.
SaveAllWith(cfg) ==
    /\ pc = "idle"
    /\ IF SaveAllRaises(cfg.mode, cfg.pattern, cfg.daily)
       THEN UNCHANGED <<store, changedToday, last>>
       ELSE /\ store' = WritePatternJson(cfg.mode, cfg.pattern, cfg.daily, cfg.weeks,
                                         cfg.nextSunday, today)
            /\ changedToday' = TRUE
            /\ last' = NoRun
    /\ UNCHANGED <<today, file, index, head, carryTracked, carryUntracked,
                   commits, stepCommits, identity, pc, runs, older, session>>

SaveAll == \E cfg \in SaveInputs : today <= MaxSaveDay /\ SaveAllWith(cfg)

\* How git answers one painter run: git log (ok, git missing, non-zero exit)
\* and, when the run gets that far, git add.
GitRuns ==
  {[log |-> "ok", add |-> a] : a \in {"ok", "nonzero", "missing"}}
  \cup {[log |-> l, add |-> "nonzero"] : l \in {"missing", "nonzero"}}

\* The workflow's first step, actions/checkout: the runner's tree is the
\* repository's HEAD, with nothing staged and nothing untracked.  Runs of the
\* workflow do not overlap (concurrency group heatmap-daily).
Checkout ==
  /\ pc = "idle"
  /\ pc' = "checkedout"
  /\ file' = IF head = None THEN NoFile
             ELSE [exists |-> TRUE, lines |-> SubSeq(file.lines, 1, head)]
  /\ index' = head
  /\ carryTracked' = FALSE
  /\ carryUntracked' = FALSE
  /\ last' = NoRun
  /\ UNCHANGED <<store, today, head, commits, stepCommits, identity, changedToday,
                 runs, older, session>>

\* One run of tools/heatmap_painter.py: the workflow's second step, whose
\* exit code 0 lets the commit step run, or a run by hand outside a workflow
\* run.
TickWith(git) ==
    LET r == PainterMain(store, today, git.log, identity, commits, file, git.add) IN
    /\ last' = r
    /\ file' = IF r.wrote > 0
               THEN AppendTo(file, NewLines(r.existing, r.wrote, r.need))
               ELSE file
    /\ index' = IF r.staged THEN Len(file'.lines) ELSE index
    /\ pc \in {"idle", "checkedout"}
    /\ pc' = IF pc = "checkedout" /\ r.exit = 0 THEN "painted" ELSE "idle"
    /\ UNCHANGED <<store, today, head, carryTracked, carryUntracked, commits,
                   stepCommits, identity, changedToday, runs, older, session>>

Tick == \E git \in GitRuns : TickWith(git)

\* A step is a run of the painter exactly when it leaves a run's record in
\* last: every other step clears it.
Ticked == last'.outcome # "None"

\* What git status --porcelain and git commit -am see.
TreeDirty ==
  \/ carryTracked \/ carryUntracked
  \/ index # head
  \/ (file.exists /\ index # Len(file.lines))
Committable ==
  \/ carryTracked
  \/ index # head
  \/ (index # None /\ index # Len(file.lines))

\* The workflow's "Commit and push" step, run after a painter step that
\* ended 0: one commit of everything staged or tracked and modified, none
\* when git status --porcelain is empty.
CommitStep ==
  /\ pc = "painted"
  /\ (TreeDirty /\ Committable) => commits["bot"] + commits["user"] < MaxCommits
  /\ pc' = "idle"
  /\ IF TreeDirty /\ Committable
     THEN /\ index' = IF index # None THEN Len(file.lines) ELSE index
          /\ head' = index'
          /\ carryTracked' = FALSE
          /\ commits' = [commits EXCEPT !["bot"] = @ + 1]
          /\ stepCommits' = stepCommits + 1
     ELSE UNCHANGED <<index, head, carryTracked, commits, stepCommits>>
  /\ last' = NoRun
  /\ UNCHANGED <<store, today, file, carryUntracked, identity, changedToday,
                 runs, older, session>>

\* A commit made outside the workflow: the user's own, or main.py's
\* _auto_commit_and_push under the committer name.  A workflow run sees the
\* history it checked out, so a commit during a run is one after it.
OtherCommit ==
  \E a \in Authors :
    /\ pc = "idle"
    /\ commits["bot"] + commits["user"] < MaxCommits
    /\ commits' = [commits EXCEPT ![a] = @ + 1]
    /\ last' = NoRun
    /\ UNCHANGED <<store, today, file, index, head, carryTracked, carryUntracked,
                   stepCommits, identity, pc, changedToday, runs, older, session>>

\* UTC midnight passes.  What yesterday's file leaves uncommitted is carried
\* for the commit step of a workflow run that is under way; outside a run
\* nothing reads it, the next run starting from a checkout.
NextDay ==
  /\ today < MaxDay
  /\ today' = today + 1
  /\ file' = NoFile
  /\ index' = None
  /\ head' = None
  /\ carryTracked' = (/\ pc # "idle"
                      /\ (carryTracked \/ index # head
                            \/ (index # None /\ index # Len(file.lines))))
  /\ carryUntracked' = (/\ pc # "idle"
                        /\ (carryUntracked \/ (file.exists /\ index = None)))
  /\ commits' = [a \in Authors |-> 0]
  /\ stepCommits' = 0
  /\ changedToday' = FALSE
  /\ last' = NoRun
  /\ UNCHANGED <<store, identity, pc, runs, older, session>>

Next == SaveAll \/ Checkout \/ Tick \/ CommitStep \/ OtherCommit \/ NextDay

Spec == Init /\ [][Next]_vars

-----------------------------------------------------------------------------
(* The painter on a pattern.json written by hand: main reads whatever JSON  *)
(* the file holds (lines 168-179), of any shape and with any start_date.   *)

\* Grids as the editor makes them, of one week more than it is bounded to.
WideGrids == {Grid(c, n) : c \in {0, 1}, n \in 1..(MaxWeeks + 1)}

\* Grids that save_all refuses or the editor never makes: no column, six
\* rows, eight rows, a longer third row, a longer eighth row, cells that are
\* no numbers, no row at all ("pattern": null).
OddGrids ==
  { [r \in 1..7 |-> <<>>],
    SubSeq(Grid(0, 1), 1, 6),
    Grid(0, 1) \o << <<1>> >>,
    [Grid(0, 1) EXCEPT ![3] = <<1, 1>>],
    Grid(0, 1) \o << <<1, 1>> >>,
    [r \in 1..7 |-> <<NotNumeric>>],
    <<>> }

\* start_date a week before the first date, on it, and a day after it.
StoreStarts == {0 - 7, 0, 1}

StoreInputs ==
  {[exists |-> TRUE, mode |-> "pattern", start |-> d, pattern |-> p, daily |-> 0] :
     d \in StoreStarts, p \in WideGrids \cup OddGrids}
  \cup
  {[exists |-> TRUE, mode |-> "daily", start |-> d,
    pattern |-> BuildDailyPattern(q, 1), daily |-> q] :
     d \in StoreStarts, q \in 0..MaxNeed}

StoreInit ==
  /\ store \in StoreInputs
  /\ today = 0
  /\ file = NoFile
  /\ index = None
  /\ head = None
  /\ carryTracked = FALSE
  /\ carryUntracked = FALSE
  /\ commits = [a \in Authors |-> 0]
  /\ stepCommits = 0
  /\ identity \in Identities
  /\ pc = "idle"
  /\ changedToday = FALSE
  /\ last = NoRun
  /\ runs = NoRuns
  /\ older = NoFile
  /\ session = NoSession

StoreNext == Tick \/ OtherCommit \/ NextDay

StoreSpec == StoreInit /\ [][StoreNext]_vars

-----------------------------------------------------------------------------
(* The painter killed in mid-run. *)

\* A run of main that got to the append (lines 248-253) and was killed
\* there: k of its to_write lines are in the file, whole; the file may have
\* been created and left empty; git add was not run and no exit code of
\* main was returned.
TickKilled ==
  LET r == PainterMain(store, today, "ok", identity, commits, file, "ok") IN
  /\ pc \in {"idle", "checkedout"}
  /\ r.outcome = "Write"
  /\ \E k \in 0..r.wrote : \E opened \in BOOLEAN :
       /\ file' = IF k > 0 \/ opened
                  THEN AppendTo(file, NewLines(r.existing, k, r.need))
                  ELSE file
       /\ last' = [r EXCEPT !.outcome = "Killed", !.exit = 1, !.wrote = k,
                            !.addCalled = FALSE, !.staged = FALSE,
                            !.add = "unasked"]
  /\ pc' = "idle"
  /\ UNCHANGED <<store, today, index, head, carryTracked, carryUntracked, commits,
                 stepCommits, identity, changedToday, runs, older, session>>

CrashNext == StoreNext \/ TickKilled

CrashSpec == StoreInit /\ [][CrashNext]_vars

\* The schedule (cron, every 30 minutes) runs the painter again and again,
\* and git answers.
CrashFairSpec == CrashSpec /\ WF_vars(TickWith([log |-> "ok", add |-> "ok"]))

-----------------------------------------------------------------------------
(* The day's target and progress, as the painter derives them. *)

Target == ResolveNeed(store, today)
\* The date lies in the pattern's span and the store is usable.
Active == store.exists /\ ~Target.stop
\* required_count: the cell or quota of an active day, 0 outside the span.
RequiredCount == IF Active THEN Target.need ELSE 0
\* actual_commit_count, when git log answers.
LedgerCount == CountCommitsToday("ok", identity, commits)
\* record_count_on_disk.
OnDisk == ExistingLines(file)

\* A grid as the spec defines it: 7 rows of one length N >= 1, every cell a
\* non-negative integer.
ValidGrid(p) ==
  /\ Len(p) = 7
  /\ \A r \in 1..7 : Len(p[r]) = Len(p[1])
  /\ Len(p[1]) >= 1
  /\ \A r \in 1..7 : \A k \in 1..Len(p[r]) : p[r][k] >= 0
\* The store is in grid mode and holds such a grid.
GridMode == store.exists /\ store.mode = "pattern"
\* N, the number of columns (weeks) of the stored pattern.
Weeks == IF Len(store.pattern) = 0 THEN 0 ELSE Len(store.pattern[1])

\* File g holds every line of file f, in order, as its first lines.
Extends(f, g) ==
  /\ f.exists => g.exists
  /\ Len(g.lines) >= Len(f.lines)
  /\ SubSeq(g.lines, 1, Len(f.lines)) = f.lines

\* 7 rows of one length, the test of save_all, whatever that length.
SevenEqualRows(p) == Len(p) = 7 /\ \A r \in 1..7 : Len(p[r]) = Len(p[1])
\* The first Sunday on or after date d.
FirstSundayFrom(d) == CHOOSE s \in d..(d + 6) : Weekday(s) = 6

NoOpOutcomes == {"NotStarted", "ZeroWidth", "Completed", "ZeroQuota", "Satisfied",
                 "AlreadyStaged"}
AbortOutcomes == {"LedgerUnavailable", "CommitOvershoot", "RecordOvershoot"}
\* The store cannot be used: no pattern.json, daily mode without a positive
\* daily_commit_count, fewer than 7 rows, unequal rows.
ConfigOutcomes == {"NoStore", "DailyUnset", "BadShape", "Ragged"}

-----------------------------------------------------------------------------
(* main, statement by statement: painter processes that share one working  *)
(* tree, and the clock running on between two statements.                  *)

\* The stores of this part: start_date on the first date, a positive quota
\* or a grid as the spec defines it.
StepStores ==
  {s \in StoreInputs :
     /\ s.start = 0
     /\ s.mode = "daily" => s.daily > 0
     /\ s.mode = "pattern" => s.pattern \in PatternInputs}

StepInit ==
  /\ store \in StepStores
  /\ today = 0
  /\ file = NoFile
  /\ index = None
  /\ head = None
  /\ carryTracked = FALSE
  /\ carryUntracked = FALSE
  /\ commits = [a \in Authors |-> 0]
  /\ stepCommits = 0
  /\ identity = ""
  /\ pc = "idle"
  /\ changedToday = FALSE
  /\ last = NoRun
  /\ runs = NoRuns
  /\ older = NoFile
  /\ session = NoSession

\* main has returned with this exit code.
Ended(code, what) == [Waiting EXCEPT !.exit = code]

\* <data_dir>/<day>.txt for the date a process took at line 181.
FileOf(day) == IF day = today THEN file ELSE older

\* How a git child process answers: as in GitRuns, or not at all.
\* subprocess.run is given no timeout (lines 256 and 272), so main waits for
\* as long as git runs.
GitAnswers == {"ok", "nonzero", "missing", "hang"}

\* Lines 161-214: read pattern.json, take today's date, resolve the target.
StepBegin(p) ==
  LET t == ResolveNeed(store, today) IN
  /\ runs[p].at = "idle"
  /\ runs' = [runs EXCEPT ![p] =
       IF ~store.exists THEN Ended(1, "NoStore")
       ELSE IF t.stop THEN Ended(t.exit, t.outcome)
       ELSE [Waiting EXCEPT !.at = "resolved", !.day = today, !.need = t.need]]
  /\ UNCHANGED <<store, today, file, index, head, carryTracked, carryUntracked,
                 commits, stepCommits, identity, pc, changedToday, last, older, session>>

\* Lines 216-230: _count_commits_today takes the date anew (line 266) and
\* asks git log for the commits since that date's midnight.
StepLedger(p) ==
  /\ runs[p].at = "resolved"
  /\ \E l \in GitAnswers :
       runs' = [runs EXCEPT ![p] =
         IF l = "hang" THEN [@ EXCEPT !.at = "hung", !.since = today]
         ELSE LET c == CountCommitsToday(l, identity, commits)
                  v == LedgerCheck(@.need, c)
              IN IF v # "Continue" THEN Ended(ExitCode(v), v)
                 ELSE [@ EXCEPT !.at = "asked", !.since = today, !.ledger = c]]
  /\ UNCHANGED <<store, today, file, index, head, carryTracked, carryUntracked,
                 commits, stepCommits, identity, pc, changedToday, last, older, session>>

\* Lines 232-246: count the lines of the file of the date of line 181.
StepCount(p) ==
  LET e == ExistingLines(FileOf(runs[p].day))
      v == RecordCheck(runs[p].need, e)
  IN
  /\ runs[p].at = "asked"
  /\ runs' = [runs EXCEPT ![p] =
       IF v # "Append" THEN Ended(ExitCode(v), v)
       ELSE [@ EXCEPT !.at = "counted", !.existing = e]]
  /\ UNCHANGED <<store, today, file, index, head, carryTracked, carryUntracked,
                 commits, stepCommits, identity, pc, changedToday, last, older, session>>

\* Lines 248-253: append to_write lines, numbered from the count taken at
\* lines 236-239, to the file as it is now.
StepAppend(p) ==
  LET n == ToWrite(runs[p].need, runs[p].existing)
      g == AppendTo(FileOf(runs[p].day), NewLines(runs[p].existing, n, runs[p].need))
  IN
  /\ runs[p].at = "counted"
  /\ IF runs[p].day = today
     THEN file' = g /\ older' = older
     ELSE older' = g /\ file' = file
  /\ runs' = [runs EXCEPT ![p] = [@ EXCEPT !.at = "appended", !.wrote = n]]
  /\ UNCHANGED <<store, today, index, head, carryTracked, carryUntracked,
                 commits, stepCommits, identity, pc, changedToday, last, session>>

\* Lines 255-262: git add of the file, then return.
StepAdd(p) ==
  /\ runs[p].at = "appended"
  /\ \E a \in GitAnswers :
       /\ runs' = [runs EXCEPT ![p] =
            IF a = "hang" THEN [@ EXCEPT !.at = "hung"]
            ELSE IF a = "ok" THEN Ended(ExitCode("Write"), "Write")
            ELSE Ended(ExitCode("StageFailed"), "StageFailed")]
       /\ index' = IF a = "ok" /\ runs[p].day = today THEN Len(file.lines) ELSE index
       /\ carryTracked' = (carryTracked \/ (a = "ok" /\ runs[p].day # today))
  /\ UNCHANGED <<store, today, file, head, carryUntracked, commits, stepCommits,
                 identity, pc, changedToday, last, older, session>>

\* UTC midnight passes while processes are in main.  A run lasts far less
\* than a day: no process that is still at work took its date before
\* yesterday.
Midnight ==
  /\ today < MaxStepDay
  /\ \A p \in Procs : runs[p].at \in {"idle", "hung"} \/ runs[p].day = today
  /\ today' = today + 1
  /\ older' = IF \E p \in Procs : runs[p].at \notin {"idle", "hung"} THEN file ELSE NoFile
  /\ file' = NoFile
  /\ index' = None
  /\ head' = None
  /\ commits' = [a \in Authors |-> 0]
  /\ stepCommits' = 0
  /\ changedToday' = FALSE
  /\ UNCHANGED <<store, carryTracked, carryUntracked, identity, pc, last, runs,
                 session>>

StepNext ==
  \/ \E p \in Procs :
       StepBegin(p) \/ StepLedger(p) \/ StepCount(p) \/ StepAppend(p) \/ StepAdd(p)
  \/ OtherCommit
  \/ Midnight

StepSpec == StepInit /\ [][StepNext]_vars

\* The scheduler gives every process that is in main its next statement.
StepFairSpec ==
  /\ StepSpec
  /\ \A p \in Procs :
       /\ WF_vars(StepLedger(p))
       /\ WF_vars(StepCount(p))
       /\ WF_vars(StepAppend(p))
       /\ WF_vars(StepAdd(p))

-----------------------------------------------------------------------------
(* The painter under every identity the environment can give it. *)

\* What GITHUB_ACTOR and COMMITTER_NAME can hold; "" is unset or empty.
EnvNames == {"", "bot", "user", "x"}

\* main, line 216: os.environ.get("GITHUB_ACTOR") or
\* os.environ.get("COMMITTER_NAME").
Identity(actor, committer) == IF actor # "" THEN actor ELSE committer

LedgerInit ==
  /\ store \in StepStores
  /\ today = 0
  /\ file = NoFile
  /\ index = None
  /\ head = None
  /\ carryTracked = FALSE
  /\ carryUntracked = FALSE
  /\ commits = [a \in Authors |-> 0]
  /\ stepCommits = 0
  /\ \E actor \in EnvNames : \E committer \in EnvNames :
       identity = Identity(actor, committer)
  /\ pc = "idle"
  /\ changedToday = FALSE
  /\ last = NoRun
  /\ runs = NoRuns
  /\ older = NoFile
  /\ session = NoSession

LedgerNext == Tick \/ OtherCommit \/ NextDay

LedgerSpec == LedgerInit /\ [][LedgerNext]_vars

-----------------------------------------------------------------------------
(* save_all as a function of its arguments: called on any date, with any   *)
(* pattern and configuration, not only those main.py makes.                *)

\* Every grid of WideGrids that the editor is bounded to, the grids that are
\* not 7xN, and every daily_commit_count from -1 on.  A pattern of None
\* raises as the pattern without rows does (line 24-25).
AnySaveInputs ==
  {[mode |-> "pattern", pattern |-> p, daily |-> 0, weeks |-> 1, nextSunday |-> b] :
     p \in PatternInputs \cup OddGrids, b \in BOOLEAN}
  \cup
  {[mode |-> "daily", pattern |-> <<>>, daily |-> d, weeks |-> w, nextSunday |-> b] :
     d \in (0 - 1)..MaxNeed, w \in 1..MaxWeeks, b \in BOOLEAN}

SaveAny == \E cfg \in AnySaveInputs : SaveAllWith(cfg)

SaveNext == SaveAny \/ Tick \/ NextDay

SaveSpec == Init /\ [][SaveNext]_vars

-----------------------------------------------------------------------------
(* main.py and tui.py: loading pattern.json and editing what was loaded. *)

OnlySession ==
  UNCHANGED <<store, today, file, index, head, carryTracked, carryUntracked,
              commits, stepCommits, identity, pc, changedToday, last, runs, older>>

\* Values a stored row can hold.
StoredCells == {AnInt(3), AnInt(12), AnInt(0 - 1), AReal(37), AReal(0 - 37), ABool(1),
                ADigits(4), AText, ANull, AnArray, ANaN, AnInf}

\* A stored pattern of 7 rows of n values (ragged: of 0 to n values), value
\* in half of its places and the row's number in the others.
Stored(value, n, ragged) ==
  [k |-> "rows",
   rows |-> [r \in 1..7 |->
               Row([c \in 1..(IF ragged THEN r % (n + 1) ELSE n) |->
                      IF (r + c) % 2 = 0 THEN value ELSE AnInt(r)])]]

\* What pattern.json can hold.
JsonInputs ==
  {Content(k) : k \in {"missing", "unreadable", "notutf8", "notjson", "notobject",
                       "nopattern", "notlist"}}
  \cup {Stored(v, n, b) : v \in StoredCells, n \in 0..(MaxCols + 1), b \in BOOLEAN}
  \cup {[Stored(v, 1, FALSE) EXCEPT !.rows[r] = NotARow] :
          v \in {AnInt(3), AnInf}, r \in {1, 4, 7}}
  \cup {[k |-> "rows", rows |-> SubSeq(Stored(AnInt(3), 1, FALSE).rows, 1, n)] : n \in {0, 6}}
  \cup {[k |-> "rows", rows |-> Stored(AnInt(3), 1, FALSE).rows \o <<Row(<<AnInt(3)>>)>>]}

WeeksInputs == (0 - 1)..MaxCols

\* _load_existing_pattern(repo_path, weeks) called on its own.
LoadWith(raw, weeks) ==
  LET got == LoadExistingPattern(raw, weeks) IN
  /\ session.at # "editing"
  /\ session' = IF got.raised
                THEN [NoSession EXCEPT !.at = "raised", !.weeks = weeks, !.raw = raw]
                ELSE [NoSession EXCEPT !.at = "loaded", !.weeks = weeks, !.raw = raw,
                                       !.initial = got.pattern, !.pattern = got.pattern]
  /\ OnlySession

Load == \E raw \in JsonInputs, weeks \in WeeksInputs : LoadWith(raw, weeks)

\* The painter's environment plays no part in main.py.
EditInit == Init /\ identity = ""

LoadSpec == EditInit /\ [][Load]_vars

\* run_tui, lines 366-371.
RunTuiRaises(pattern) == Len(pattern) # 7 \/ Len(pattern[1]) = 0

\* main, lines 26-36, up to the editor's first screen: tty is whether there
\* is a terminal (and curses) to edit on.
RunMain(raw, weeks, tty) ==
  LET got == LoadExistingPattern(raw, Max(1, weeks)) IN
  /\ session.at # "editing"
  /\ session' =
       IF got.raised \/ RunTuiRaises(got.pattern)
       THEN [NoSession EXCEPT !.at = "raised", !.weeks = weeks, !.raw = raw]
       ELSE [NoSession EXCEPT !.at = IF tty THEN "editing" ELSE "returned",
                              !.weeks = weeks, !.raw = raw,
                              !.initial = got.pattern, !.pattern = got.pattern,
                              !.message = IF tty THEN "start" ELSE ""]
  /\ OnlySession

\* The patterns the editor is opened on: none stored, and a stored one with
\* cells from 1 to 7.
EditorJsons == {Content("missing"), Stored(AnInt(3), MaxCols, FALSE)}

\* _load_config has made weeks an integer >= 1 (line 74).
Start == \E raw \in EditorJsons, weeks \in 1..MaxCols, tty \in BOOLEAN : RunMain(raw, weeks, tty)

Editing == session.at = "editing"
Rows == Len(session.pattern)
Cols == Len(session.pattern[1])
AtCursor == {<<session.cursor_row, session.cursor_col>>}
CanType == Editing /\ session.keys < MaxKeys

\* One key changes the pattern: cells become value, and writing a cell that
\* is not there ends the editor with IndexError.
Write(cells, value, message) ==
  session' = IF \A cell \in cells : InPattern(session.pattern, cell)
             THEN [session EXCEPT !.pattern = SetCells(@, cells, value),
                                  !.message = message,
                                  !.writes = cells,
                                  !.keys = @ + 1]
             ELSE [session EXCEPT !.at = "raised", !.writes = cells]

\* One key changes the message line only.
Say(message) == session' = [session EXCEPT !.message = message, !.keys = @ + 1]

\* Lines 410-413 and 414-417.
KeyQuit ==
  /\ Editing
  /\ session' = [session EXCEPT !.at = "returned", !.save = FALSE, !.message = "abandoned"]
  /\ OnlySession

KeySave ==
  /\ Editing
  /\ session' = [session EXCEPT !.at = "returned", !.save = TRUE, !.message = "saved"]
  /\ OnlySession

\* Lines 419-430.
KeyUp ==
  /\ CanType
  /\ session' = [session EXCEPT !.cursor_row = Max(0, @ - 1)]
  /\ OnlySession

KeyDown ==
  /\ CanType
  /\ session' = [session EXCEPT !.cursor_row = Min(Rows - 1, @ + 1)]
  /\ OnlySession

KeyLeft ==
  /\ CanType
  /\ session' = [session EXCEPT !.cursor_col = Max(0, @ - 1)]
  /\ OnlySession

KeyRight ==
  /\ CanType
  /\ session' = [session EXCEPT !.cursor_col = Min(Cols - 1, @ + 1)]
  /\ OnlySession

\* Lines 431-433: the keys "0" to "9"; the model types one of them.
DigitKeys == {4}

KeyDigit ==
  /\ CanType
  /\ \E d \in DigitKeys : Write(AtCursor, d, session.message)
  /\ OnlySession

\* Lines 434-436.
KeySpace ==
  /\ CanType
  /\ Write(AtCursor,
           IF session.pattern[session.cursor_row + 1][session.cursor_col + 1] = 0
           THEN 5 ELSE 0,
           session.message)
  /\ OnlySession

\* Lines 437-439.
KeyCycle ==
  /\ CanType
  /\ Write(AtCursor, Cycle(session.pattern[session.cursor_row + 1][session.cursor_col + 1]),
           session.message)
  /\ OnlySession

\* What is typed at the prompt, after strip(): nothing, one or two
\* characters, "?" being a character without a glyph.
TextInputs == {<<>>, <<"a">>, <<"?", "I">>, <<" ", "A">>}

\* Lines 440-447.
KeyText ==
  /\ CanType
  /\ \E text \in TextInputs :
       IF text = <<>>
       THEN Say("empty")
       ELSE Write(StampText(session.pattern, session.cursor_col, text).writes, 9, "applied")
  /\ OnlySession

\* Lines 448-456.
KeyClear ==
  /\ CanType
  /\ \E confirm \in BOOLEAN :
       IF confirm
       THEN Write((0..(Rows - 1)) \X (0..(Cols - 1)), 0, "cleared")
       ELSE Say("kept")
  /\ OnlySession

\* Line 458: any other key.
KeyOther ==
  /\ CanType
  /\ Say("unknown")
  /\ OnlySession

EditNext ==
  \/ Start
  \/ KeyQuit \/ KeySave
  \/ KeyUp \/ KeyDown \/ KeyLeft \/ KeyRight
  \/ KeyDigit \/ KeySpace \/ KeyCycle \/ KeyText \/ KeyClear \/ KeyOther

EditSpec == EditInit /\ [][EditNext]_vars

-----------------------------------------------------------------------------
(* Claims. *)

\* C1: no painter run appends lines that bring the day's file above
\* required_count: a run that appends ends with at most required_count lines,
\* and a file that held at most required_count lines still does after the run.
C1_NoTickExceedsTarget ==
  [][Ticked =>
       /\ (Len(file'.lines) > Len(file.lines) => Len(file'.lines) <= RequiredCount)
       /\ (OnDisk <= RequiredCount => Len(file'.lines) <= RequiredCount)]_vars

\* C1 witness: a run has appended to a file that already held lines and
\* stopped exactly at the target.
C1_Witness ==
  /\ last.wrote > 0
  /\ last.existing > 0
  /\ Len(file.lines) = last.need
  /\ last.need = RequiredCount

\* C2 as stated: after a run that wrote, with nothing in between (no commit,
\* same date, same pattern), the next run is a NoOp with exit code 0 that
\* appends nothing.
C2_NextTickIsNoOp ==
  [][(last.wrote > 0 /\ Ticked) =>
       /\ last'.outcome \in NoOpOutcomes
       /\ last'.exit = 0
       /\ file' = file]_vars

\* C2 amended: the run after a Write appends nothing, since the Write left
\* exactly required_count lines; it is a NoOp with exit code 0 when its
\* ledger query succeeds and an Abort with a non-zero exit code when not.
C2_NextTickAppendsNothing ==
  [][(last.wrote > 0 /\ Ticked) =>
       /\ OnDisk = RequiredCount
       /\ file' = file
       /\ last'.wrote = 0
       /\ ~last'.addCalled
       /\ IF last'.ledger # None
          THEN last'.outcome = "AlreadyStaged" /\ last'.exit = 0
          ELSE last'.outcome = "LedgerUnavailable" /\ last'.exit # 0]_vars

\* C2 witness: a run found the records a Write had staged, not yet committed.
C2_Witness ==
  /\ last.outcome = "AlreadyStaged"
  /\ last.existing = last.need
  /\ index = Len(file.lines)
  /\ head # index

\* C3 as stated: with the ledger available, fewer commits than required and
\* fewer lines than required, the run appends exactly
\* required_count - record_count_on_disk lines, stages the file and exits 0.
C3_WriteStagesAndExitsZero ==
  [][(Ticked /\ Active /\ last'.log = "ok"
        /\ LedgerCount < RequiredCount /\ OnDisk < RequiredCount) =>
       /\ Len(file'.lines) = OnDisk + (RequiredCount - OnDisk)
       /\ SubSeq(file'.lines, 1, OnDisk) = file.lines
       /\ index' = Len(file'.lines)
       /\ last'.exit = 0]_vars

\* C3 amended: in that case the run appends exactly
\* required_count - record_count_on_disk lines and calls git add; it exits 0
\* with the file staged when git add succeeds, and exits non-zero with the
\* lines appended and the index untouched when git add fails.
C3_WriteAppendsExactly ==
  [][(Ticked /\ Active /\ last'.log = "ok"
        /\ LedgerCount < RequiredCount /\ OnDisk < RequiredCount) =>
       /\ Len(file'.lines) = OnDisk + (RequiredCount - OnDisk)
       /\ SubSeq(file'.lines, 1, OnDisk) = file.lines
       /\ last'.wrote = RequiredCount - OnDisk
       /\ last'.addCalled
       /\ IF last'.add = "ok"
          THEN index' = Len(file'.lines) /\ last'.exit = 0
          ELSE index' = index /\ last'.exit # 0]_vars

\* C3 witness: a Write of fewer lines than the target, onto a file that
\* already held some, staged and ended with exit code 0.
C3_Witness ==
  /\ last.outcome = "Write"
  /\ last.existing > 0
  /\ last.wrote = last.need - last.existing
  /\ last.ledger < last.need
  /\ index = last.need
  /\ last.exit = 0

\* C4 as stated, on the state the repetition ends in: once the day's records
\* are all on disk and committed and no commit step is due, no later run or
\* commit step changes anything, so the commits the ledger counts for the day
\* must by then have reached required_count.
C4_CommitsReachTarget ==
  (/\ Active /\ RequiredCount >= 1
   /\ identity # "user"
   /\ pc = "idle"
   /\ OnDisk = RequiredCount
   /\ index = Len(file.lines) /\ head = index
   /\ ~carryTracked /\ ~carryUntracked)
  => LedgerCount >= RequiredCount

\* C5 as stated: on a date whose pattern is unchanged, the commits the
\* workflow's commit step has made on that date never exceed the date's
\* required_count.
C5_NoExcessStepCommits ==
  ~changedToday => stepCommits <= RequiredCount

\* C6 as stated, for the runs whose ledger query succeeds: on a date whose
\* file holds fewer than required_count lines, each run strictly increases
\* the number of lines on disk.
C6_EachTickIncreases ==
  [][(Ticked /\ last'.log = "ok" /\ Active /\ OnDisk < RequiredCount) =>
       Len(file'.lines) > Len(file.lines)]_vars

\* C6 amended: on such a date a run whose ledger query succeeds with fewer
\* commits than required_count raises the lines on disk to exactly
\* required_count in that one run; a run whose ledger is unavailable or
\* already counts required_count commits or more leaves the file as it is;
\* and once the file holds required_count lines no run changes it.
C6_ConvergesInOneTick ==
  [][(Ticked /\ Active) =>
       /\ (OnDisk < RequiredCount /\ last'.log = "ok" /\ LedgerCount < RequiredCount)
            => (Len(file'.lines) = RequiredCount /\ Len(file'.lines) > OnDisk)
       /\ (OnDisk < RequiredCount /\ (last'.log # "ok" \/ LedgerCount >= RequiredCount))
            => file' = file
       /\ (OnDisk = RequiredCount) => file' = file]_vars

\* C6 witness: one run took an empty date from no line to a target of two
\* or more.
C6_Witness ==
  /\ last.outcome = "Write"
  /\ last.existing = 0
  /\ RequiredCount >= 2
  /\ Len(file.lines) = RequiredCount

\* C7 as stated: whenever git log cannot give today's commit count the run
\* ends in the ledger Abort with a non-zero exit code, whatever the target.
C7_UnavailableAlwaysAborts ==
  [][(Ticked /\ last'.log # "ok" /\ store.exists) =>
       (last'.outcome = "LedgerUnavailable" /\ last'.exit # 0)]_vars

\* C7 amended: on an active date, zero quota included, a run whose ledger
\* is unavailable ends in the ledger Abort with a non-zero exit code and
\* writes nothing; before start_date and after the last column the run
\* returns 0 without asking the ledger, available or not.
C7_UnavailableAbortsWhenActive ==
  [][(Ticked /\ last'.log # "ok" /\ store.exists) =>
       IF Active
       THEN /\ last'.outcome = "LedgerUnavailable"
            /\ last'.exit # 0
            /\ file' = file
       ELSE (Target.outcome \in {"NotStarted", "Completed"}) =>
              (last'.outcome = Target.outcome /\ last'.exit = 0 /\ ~last'.asked)]_vars

\* C7 witness: the ledger Abort on a zero-quota date.
C7_Witness ==
  /\ last.outcome = "LedgerUnavailable"
  /\ Active
  /\ RequiredCount = 0
  /\ last.exit # 0

\* C8: _count_commits_today gives None, not 0, when git is missing or git log
\* exits non-zero, and a run that gets None on an active date with
\* required_count > 0 leaves the day's file as it was (absent if it was
\* absent) and runs no git add.
C8_UnavailableIsNotZero ==
  [][/\ \A l \in {"missing", "nonzero"} : CountCommitsToday(l, identity, commits) = None
     /\ (Ticked /\ last'.log # "ok" /\ Active /\ RequiredCount > 0) =>
          /\ file' = file
          /\ index' = index
          /\ last'.wrote = 0
          /\ ~last'.addCalled
          /\ last'.ledger = None]_vars

\* C8 witness: the ledger Abort on a date that needs records and has no file.
C8_Witness ==
  /\ last.outcome = "LedgerUnavailable"
  /\ last.need > 0
  /\ ~file.exists
  /\ index = None

\* C9: with required_count > 0 and more commits today than required_count,
\* the run aborts with a non-zero exit code and leaves the day's file and the
\* index as they were, whatever the file holds.
C9_CommitOvershootAborts ==
  [][(Ticked /\ last'.log = "ok" /\ Active
        /\ RequiredCount > 0 /\ LedgerCount > RequiredCount) =>
       /\ last'.outcome = "CommitOvershoot"
       /\ last'.exit # 0
       /\ file' = file
       /\ index' = index]_vars

\* C9 witness: the commit-overshoot Abort on a date whose file already held
\* records.
C9_Witness ==
  /\ last.outcome = "CommitOvershoot"
  /\ last.need > 0
  /\ last.ledger > last.need
  /\ last.existing > 0
  /\ last.exit # 0

\* C10 as stated: on an active date whose required_count is 0, with the
\* ledger available, the run is a NoOp with exit code 0 and no write for
\* every commit count.
C10_ZeroQuotaAlwaysNoOp ==
  [][(Ticked /\ last'.log = "ok" /\ Active /\ RequiredCount = 0) =>
       /\ last'.outcome \in NoOpOutcomes
       /\ last'.exit = 0
       /\ file' = file]_vars

\* C10 amended: on such a date the run never writes; it is the zero-quota
\* NoOp with exit code 0 when today has no commit, and the commit-overshoot
\* Abort with a non-zero exit code when today has one or more, the overshoot
\* test coming first.
C10_ZeroQuotaAfterOvershoot ==
  [][(Ticked /\ last'.log = "ok" /\ Active /\ RequiredCount = 0) =>
       /\ file' = file
       /\ index' = index
       /\ IF LedgerCount = 0
          THEN last'.outcome = "ZeroQuota" /\ last'.exit = 0
          ELSE last'.outcome = "CommitOvershoot" /\ last'.exit # 0]_vars

\* C10 witness: the commit-overshoot Abort on a zero-quota date.
C10_Witness ==
  /\ last.outcome = "CommitOvershoot"
  /\ last.need = 0
  /\ last.ledger > 0
  /\ last.exit # 0

\* C11: with the ledger available and today's commit count equal to a
\* required_count above 0, the run is the satisfied NoOp with exit code 0 and
\* leaves the day's file and the index as they were, whatever the file holds
\* and in either mode.
C11_SatisfiedIsNoOp ==
  [][(Ticked /\ last'.log = "ok" /\ Active
        /\ RequiredCount > 0 /\ LedgerCount = RequiredCount) =>
       /\ last'.outcome = "Satisfied"
       /\ last'.exit = 0
       /\ last'.wrote = 0
       /\ file' = file
       /\ index' = index]_vars

\* C11 witness: the satisfied NoOp in daily mode on a date that has no file.
C11_Witness ==
  /\ last.outcome = "Satisfied"
  /\ store.mode = "daily"
  /\ last.need > 0
  /\ last.ledger = last.need
  /\ ~file.exists

\* C12: with the ledger available, fewer commits today than required_count
\* and more lines in the day's file than required_count, the run aborts with
\* a non-zero exit code and leaves the file, every line of it, and the index
\* as they were.
C12_RecordOvershootAborts ==
  [][(Ticked /\ last'.log = "ok" /\ Active
        /\ LedgerCount < RequiredCount /\ OnDisk > RequiredCount) =>
       /\ last'.outcome = "RecordOvershoot"
       /\ last'.exit # 0
       /\ last'.wrote = 0
       /\ file' = file
       /\ index' = index]_vars

\* C12 witness: the record-overshoot Abort, the file still above the target.
C12_Witness ==
  /\ last.outcome = "RecordOvershoot"
  /\ last.ledger < last.need
  /\ Len(file.lines) > last.need
  /\ last.exit # 0

\* C13: with a valid 7xN grid, on the date start_date + 7*k + r
\* (0 <= r < 7, 0 <= k < N) the date is active, required_count is
\* pattern[r][k], and a run that gets to the ledger works with that count.
C13_GridMapping ==
  (GridMode /\ ValidGrid(store.pattern)) =>
    \A r \in 0..6 : \A k \in 0..(Weeks - 1) :
      (today = store.start + 7 * k + r) =>
        /\ Active
        /\ RequiredCount = store.pattern[r + 1][k + 1]
        /\ last.asked => last.need = store.pattern[r + 1][k + 1]

\* C13 witness: a Write in the second column of a grid whose start_date is
\* no Sunday, for the count of that cell.
C13_Witness ==
  /\ GridMode /\ ValidGrid(store.pattern)
  /\ Weekday(store.start) # 6
  /\ today - store.start >= 7
  /\ last.outcome = "Write"
  /\ last.need = store.pattern[((today - store.start) % 7) + 1][2]
  /\ Len(file.lines) = last.need

\* C14: with a valid 7xN grid a run resolves NotStarted exactly on the dates
\* before start_date and Completed exactly on the dates from
\* start_date + 7*N on; both end with exit code 0 and leave the file and the
\* index alone, and no run appends a record on a date outside
\* [start_date, start_date + 7*N).
C14_GridBoundaries ==
  [][(Ticked /\ GridMode /\ ValidGrid(store.pattern)) =>
       /\ (last'.outcome = "NotStarted") <=> (today < store.start)
       /\ (last'.outcome = "Completed") <=> (today >= store.start + 7 * Weeks)
       /\ (last'.outcome \in {"NotStarted", "Completed"}) =>
            (last'.exit = 0 /\ last'.wrote = 0 /\ file' = file /\ index' = index)
       /\ (file' # file) =>
            (store.start <= today /\ today < store.start + 7 * Weeks)]_vars

\* C14 witness: a run on the first date after the last column of a grid of
\* two weeks.
C14_Witness ==
  /\ GridMode /\ ValidGrid(store.pattern)
  /\ Weeks = 2
  /\ today = store.start + 14
  /\ last.outcome = "Completed"
  /\ last.exit = 0
  /\ ~file.exists

\* C15 as stated: in daily mode, on every date from start_date + 7*N on (N
\* the weeks the flat pattern was saved with) the date is not active and a
\* run resolves Completed and writes nothing.
C15_FlatWindowCompletes ==
  (store.exists /\ store.mode = "daily" /\ today >= store.start + 7 * Weeks) =>
    /\ ~Active
    /\ (last.outcome # "None") => (last.outcome = "Completed" /\ last.wrote = 0)

\* C16 as stated: in grid mode, a pattern with a row count other than 7,
\* rows of unequal length or a cell that is no number makes every run end
\* with a non-zero exit code and write nothing, on every date.
C16_MalformedIsFatal ==
  [][(Ticked /\ GridMode
        /\ (\/ Len(store.pattern) # 7
            \/ \E r \in 1..Len(store.pattern) : Len(store.pattern[r]) # Len(store.pattern[1])
            \/ \E r \in 1..Len(store.pattern) : \E k \in 1..Len(store.pattern[r]) :
                  store.pattern[r][k] = NotNumeric)) =>
       /\ last'.exit # 0
       /\ file' = file]_vars

C18_FailuresLeaveFile ==
  [][(Ticked /\ last'.exit # 0) => file' = file]_vars

\* C19: whenever git add fails during a Write, by a non-zero exit or because
\* git cannot be run, the run ends with a non-zero exit code, stages nothing,
\* and inside a workflow run the commit step does not follow.
C19_StageFailureIsReported ==
  [][(Ticked /\ last'.addCalled /\ last'.add # "ok") =>
       /\ last'.outcome = "StageFailed"
       /\ last'.exit # 0
       /\ ~last'.staged
       /\ index' = index
       /\ pc' = "idle"]_vars

\* C19 witness: a workflow's painter step appended records, could not run
\* git, and ended the run with a non-zero exit code.
C19_Witness ==
  /\ last.outcome = "StageFailed"
  /\ last.add = "missing"
  /\ last.wrote > 0
  /\ last.exit # 0
  /\ index # Len(file.lines)
  /\ pc = "idle"

C22_EveryTickTerminates ==
  \A p \in Procs : (runs[p].at = "resolved") ~> (runs[p].at = "idle")

\* C23: with a grid of 7 rows and no column, on every date on or after
\* start_date the run ends as a completed pattern does: exit code 0, the
\* ledger not asked, nothing written or staged, whatever today's commits
\* are; the date is not active and no cell is looked up.
C23_ZeroWidthIsNoOp ==
  [][(Ticked /\ GridMode /\ Len(store.pattern) = 7
        /\ (\A r \in 1..7 : Len(store.pattern[r]) = 0)
        /\ today >= store.start) =>
       /\ ~Active
       /\ last'.outcome = "ZeroWidth"
       /\ last'.exit = 0
       /\ ~last'.asked
       /\ last'.wrote = 0
       /\ file' = file
       /\ index' = index]_vars

\* C23 witness: a run on a grid without columns, more than a week after
\* start_date, on a date that has commits.
C23_Witness ==
  /\ GridMode /\ Len(store.pattern) = 7 /\ Weeks = 0
  /\ today >= store.start + 7
  /\ LedgerCount > 0
  /\ last.outcome = "ZeroWidth"
  /\ last.exit = 0
  /\ ~file.exists

\* C24: every statement of a painter process that took date D at line 181
\* leaves pattern.json and the file of every other date as they were, and
\* changes the file of D only by appending: the lines it held are still its
\* first lines, in order, and it grows by exactly the lines the process
\* writes, also when midnight has passed since line 181.
C24_TickOnlyAppendsToItsFile ==
  [][\A p \in Procs : (runs'[p] # runs[p]) =>
       LET d == IF runs[p].at = "idle" THEN today ELSE runs[p].day
           before == FileOf(d)
           after == IF d = today THEN file' ELSE older'
           written == IF runs[p].at = "counted" THEN runs'[p].wrote ELSE 0
       IN
       /\ store' = store
       /\ IF d = today THEN older' = older ELSE file' = file
       /\ Extends(before, after)
       /\ Len(after.lines) = Len(before.lines) + written
       /\ (written = 0) => after = before]_vars

\* C24 witness: a process that took its date before midnight has appended
\* to that date's file, after the lines another process had written there,
\* while the new date's file exists beside it.
C24_Witness ==
  \E p \in Procs :
    /\ runs[p].at = "appended"
    /\ runs[p].day # today
    /\ runs[p].wrote > 0
    /\ Len(older.lines) > runs[p].wrote
    /\ file.exists

\* C25 as stated: with no identity (GITHUB_ACTOR and COMMITTER_NAME both
\* unset or empty) the count covers today's commits of all authors, and with
\* an identity it covers only today's commits of the author of that name.
C25_IdentityCountsOnlyThatAuthor ==
  [][(Ticked /\ last'.asked /\ last'.log = "ok") =>
       /\ (identity = "") => last'.ledger = commits["bot"] + commits["user"]
       /\ (identity # "") =>
            last'.ledger = (IF identity \in Authors THEN commits[identity] ELSE 0)]_vars

\* C25 amended: there is no identity exactly when both variables are unset
\* or empty, and the count then covers all authors; with an identity it
\* covers today's commits of every author whose author line, name or
\* address, holds the identity: the author of that name and any other such
\* author.
C25_IdentityIsAuthorPattern ==
  [][(Ticked /\ last'.asked /\ last'.log = "ok") =>
       /\ \A actor \in EnvNames : \A committer \in EnvNames :
            /\ (Identity(actor, committer) = "") <=> (actor = "" /\ committer = "")
            /\ (actor # "") => Identity(actor, committer) = actor
       /\ (identity = "") => last'.ledger = commits["bot"] + commits["user"]
       /\ (identity \in Authors) => last'.ledger = commits[identity]
       /\ (identity # "") =>
            /\ last'.ledger >= (IF identity \in Authors THEN commits[identity] ELSE 0)
            /\ \A a \in Authors :
                 (commits[a] > 0 /\ Contains(AuthorLine[a], Chars[identity]))
                   => last'.ledger >= commits[a]
            /\ (\A a \in Authors : ~Contains(AuthorLine[a], Chars[identity]))
                 => last'.ledger = 0
            /\ (\A a \in Authors : Contains(AuthorLine[a], Chars[identity]))
                 => last'.ledger = commits["bot"] + commits["user"]]_vars

\* C25 witness: under an identity that is no author's name and lies within
\* both authors' addresses, a run counted the commits of both.
C25_Witness ==
  /\ identity = "x"
  /\ last.asked
  /\ last.log = "ok"
  /\ commits["bot"] = 1 /\ commits["user"] = 1
  /\ last.ledger = 2

\* C26: after any sequence of runs on one date, runs killed after some of
\* their lines and the runs that follow them included, the i-th line of the
\* date's file carries the sequence number i: the numbers are 1..count, none
\* repeated and none left out.
C26_SequenceNumbersInOrder ==
  \A i \in 1..Len(file.lines) : file.lines[i].idx = i

\* C26 witness: a file of two or more lines that a killed run began and a
\* later run completed.
C26_Witness ==
  /\ last.outcome = "Write"
  /\ last.existing > 0
  /\ last.wrote > 0
  /\ Len(file.lines) >= 2
  /\ file.lines[Len(file.lines)].idx = Len(file.lines)
  /\ file.lines[1].idx = 1

\* C27 as stated: save_all writes pattern.json only for a pattern of exactly
\* 7 rows of one length N >= 1 in pattern mode, or a daily_commit_count
\* above 0 in daily mode, and raises for every other input.
C27_SaveAllRequiresAColumn ==
  [][/\ \A cfg \in AnySaveInputs :
          SaveAllRaises(cfg.mode, cfg.pattern, cfg.daily) <=>
            ~(IF cfg.mode = "pattern"
              THEN SevenEqualRows(cfg.pattern) /\ Len(cfg.pattern[1]) >= 1
              ELSE cfg.daily > 0)
     /\ (store' # store) =>
          IF store'.mode = "pattern"
          THEN SevenEqualRows(store'.pattern) /\ Len(store'.pattern[1]) >= 1
          ELSE store'.daily > 0]_vars

\* C27 amended: save_all writes pattern.json exactly for a pattern of 7 rows
\* of one length N >= 0 in pattern mode, a grid without columns included, or
\* a daily_commit_count above 0 in daily mode; for every other input it
\* raises and leaves pattern.json as it was.  In daily mode the pattern
\* written is 7 rows of max(1, weeks) cells holding the daily count.
C27_SaveAllChecksRows ==
  [][/\ \A cfg \in AnySaveInputs :
          SaveAllRaises(cfg.mode, cfg.pattern, cfg.daily) <=>
            ~(IF cfg.mode = "pattern"
              THEN SevenEqualRows(cfg.pattern)
              ELSE cfg.daily > 0)
     /\ (store' # store) =>
          /\ store'.exists
          /\ changedToday'
          /\ IF store'.mode = "pattern"
             THEN SevenEqualRows(store'.pattern)
             ELSE /\ store'.daily > 0
                  /\ SevenEqualRows(store'.pattern)
                  /\ Len(store'.pattern[1]) >= 1
                  /\ \A r \in 1..7 : \A k \in 1..Len(store'.pattern[r]) :
                       store'.pattern[r][k] = store'.daily]_vars

\* C27 witness: save_all has written a grid of 7 rows without columns, and
\* the painter has run on it.
C27_Witness ==
  /\ store.exists
  /\ store.mode = "pattern"
  /\ SevenEqualRows(store.pattern)
  /\ Len(store.pattern[1]) = 0
  /\ last.outcome = "ZeroWidth"

\* C30: in pattern mode with start_from_next_sunday the start_date save_all
\* writes is the first Sunday on or after the date of the call, that date
\* itself on a Sunday and 1 to 6 days later otherwise; in pattern mode
\* without the flag and in daily mode, with or without it, it is the date of
\* the call.
C30_StartDateChoice ==
  [][/\ \A b \in BOOLEAN :
          /\ CalculateStartDate(b, "daily", today) = today
          /\ CalculateStartDate(FALSE, "pattern", today) = today
          /\ Weekday(CalculateStartDate(TRUE, "pattern", today)) = 6
          /\ CalculateStartDate(TRUE, "pattern", today) \in today..(today + 6)
          /\ (Weekday(today) = 6) => CalculateStartDate(TRUE, "pattern", today) = today
     /\ \A cfg \in AnySaveInputs :
          (/\ store' # store
           /\ store' = WritePatternJson(cfg.mode, cfg.pattern, cfg.daily, cfg.weeks,
                                        cfg.nextSunday, today)) =>
            store'.start = IF cfg.mode = "pattern" /\ cfg.nextSunday
                           THEN FirstSundayFrom(today)
                           ELSE today]_vars

\* C30 witness: a pattern saved on a Monday with the flag set, its
\* start_date the Sunday six days later.
C30_Witness ==
  /\ store.exists
  /\ store.mode = "pattern"
  /\ changedToday
  /\ Weekday(today) = 0
  /\ store.start = today + 6
  /\ Weekday(store.start) = 6

\* C28 as stated: within one run the date that selects the cell and names
\* the file (line 181) is the date whose midnight bounds the ledger query
\* (line 266), also when midnight passes between the two lines.
C28_OneDatePerTick ==
  \A p \in Procs :
    runs[p].at \in {"asked", "counted", "appended"} => runs[p].since = runs[p].day

\* C29 as stated: when a run has appended records and its git add failed,
\* or it was killed between the append and git add, then, the date and
\* today's commits staying as they are and git answering, a later run stages
\* the date's file.
C29_RecordsEventuallyStaged ==
  \A n \in 0..MaxCommits :
    (/\ \/ last.outcome = "StageFailed"
        \/ (last.outcome = "Killed" /\ Len(file.lines) = last.need)
     /\ last.wrote > 0
     /\ commits["bot"] + commits["user"] = n)
    ~> (\/ index = Len(file.lines)
        \/ ~file.exists
        \/ commits["bot"] + commits["user"] # n)

\* C31: when the editor is opened on a pattern of 7 rows of N >= 1 cells in
\* 0..9, then after any sequence of keys (moves, digits, space, cycle, text
\* stamp, clear) it is still running or has returned, the cursor is on a row
\* in 0..6 and a column in 0..N-1, the pattern has 7 rows of N cells in 0..9,
\* and the last key wrote no cell of a column >= N.
C31_EditorKeepsGrid ==
  LET N == Len(session.initial[1]) IN
  (/\ session.at \in {"editing", "returned", "raised"}
   /\ Len(session.initial) = 7
   /\ N >= 1
   /\ \A r \in 1..7 : Len(session.initial[r]) = N
   /\ \A r \in 1..7 : \A c \in 1..N : session.initial[r][c] \in 0..9)
  => /\ session.at # "raised"
     /\ session.cursor_row \in 0..6
     /\ session.cursor_col \in 0..(N - 1)
     /\ Len(session.pattern) = 7
     /\ \A r \in 1..7 : Len(session.pattern[r]) = N
     /\ \A r \in 1..7 : \A c \in 1..N : session.pattern[r][c] \in 0..9
     /\ \A cell \in session.writes : cell[1] \in 0..6 /\ cell[2] \in 0..(N - 1)

\* A text stamped with the cursor in the bottom right corner of the widest
\* pattern: the glyph is cut off at the pattern's edge.
C31_Witness ==
  /\ session.at = "editing"
  /\ session.message = "applied"
  /\ Len(session.pattern[1]) = MaxCols
  /\ session.cursor_row = 6
  /\ session.cursor_col = MaxCols - 1
  /\ session.writes # {}
  /\ \A cell \in session.writes : cell[2] = MaxCols - 1
  /\ session.pattern # session.initial

\* C32 as stated: whatever pattern.json holds and whatever weeks is,
\* _load_existing_pattern returns a pattern the editor accepts: 7 rows of
\* max(1, weeks) integers, each stored integer [r][c] with c < weeks kept
\* and the places the stored row does not reach filled with 0, when 7 rows
\* that are lists are stored.
C32_LoadYieldsGrid ==
  LET W == Max(1, session.weeks)
      rows == session.raw.rows
  IN
  session.at \in {"loaded", "raised"}
  => /\ session.at = "loaded"
     /\ ~RunTuiRaises(session.initial)
     /\ Len(session.initial) = 7
     /\ \A r \in 1..7 :
          /\ Len(session.initial[r]) = W
          /\ \A c \in 1..W : session.initial[r][c] \in Int
     /\ (Len(rows) = 7 /\ \A r \in 1..7 : rows[r].list)
        => \A r \in 1..7 : \A c \in 1..W :
             /\ c > Len(rows[r].cells) => session.initial[r][c] = 0
             /\ (c <= Len(rows[r].cells) /\ rows[r].cells[c].k = "int")
                => session.initial[r][c] = rows[r].cells[c].v

====
